---- MODULE Spec2Model ----
(***************************************************************************)
(* Model of tools/zipper/main.go: the directive merge and the two-phase    *)
(* transaction merge (sync point, overlap walk, zipper) of two parsed      *)
(* ledger files, followed by the creation and writing of the destination.  *)
(*                                                                         *)
(* Go slices are modelled as sequences; the index variables syncPoint, i1  *)
(* and i2 keep their Go (0-based) values and At(s, i) reads s[i].          *)
(* Strings that are only compared for equality (Code, directive fields)    *)
(* are TLA+ strings; strings that are ordered with < (the K/V values) are  *)
(* sequences of byte values, compared as Go compares strings.              *)
(* A time.Time date is a natural number (the day).                         *)
(***************************************************************************)
EXTENDS Integers, Sequences, FiniteSets, Bags, TLC

VARIABLES
    f1trs,        \* transactions of the master file   (main.go:49)
    f1drs,        \* directives of the master file     (main.go:49)
    f2trs,        \* transactions of the source file   (main.go:60)
    f2drs,        \* directives of the source file     (main.go:60)
    drs,          \* merged directives                 (main.go:67)
    trs,          \* merged transactions               (main.go:83)
    syncPoint,    \* main.go:86
    i1,           \* main.go:103
    i2,           \* main.go:103
    pc,           \* position of main
    msg,          \* what main printed before os.Exit(1), "" if nothing
    destCreated,  \* os.Create(dest) succeeded         (main.go:182)
    written       \* what WriteLedgerFile was given    (main.go:188)

vars == <<f1trs, f1drs, f2trs, f2drs, drs, trs, syncPoint, i1, i2, pc, msg,
          destCreated, written>>

-----------------------------------------------------------------------------
(* Bounds of the model *)

\* longest transaction list of the family of inputs that varies Code and Date
MaxLen == 3
\* longest diverging tail of the family of inputs that varies Date and ID
MaxTail == 2
\* longest directive list
MaxDirs == 3

-----------------------------------------------------------------------------
(* Values *)

Keys == {"ID", "RID", "FITID"}

\* K/V values as byte strings: "x" < "xy" < "y" in Go's string order
Vals == {<<1>>, <<1, 2>>, <<2>>}

Dates == {1, 2}

Tx(code, date, kv) == [Code |-> code, Date |-> date, KVPairs |-> kv]

\* every map[string]string over the keys ks with values in vs
KVMaps(ks, vs) == UNION {[K -> vs] : K \in SUBSET ks}

NoKV == CHOOSE f \in KVMaps({}, Vals) : TRUE

Dir(type, arg, fb) == [Type |-> type, Argument |-> arg, FoundBefore |-> fb]

SeqsUpTo(S, n) == UNION {[1..k -> S] : k \in 0..n}

\* s[i] of Go, i counted from 0
At(s, i) == s[i + 1]

NoFile == [trs |-> <<>>, drs |-> <<>>, any |-> FALSE]

\* the messages main prints before os.Exit(1)
NoSyncPoint == "No sync point found!"
UnorderableTransactions == "Error: Could not order some transactions. Ensure all transactions have ID and RID keys as appropriate."

-----------------------------------------------------------------------------
(* Inputs: what ParseLedgerRaw returned for the two files *)

\* transactions that differ in Code and Date only
CodeTxns == {Tx(c, d, NoKV) : c \in {"A", "B"}, d \in Dates}

\* transactions of one Code that differ in Date and ID; the inputs built from
\* them share the sync transaction and, possibly, one more common transaction
TailTxns(code) == {Tx(code, d, kv) : d \in Dates, kv \in KVMaps({"ID"}, {<<1>>, <<2>>})}

\* transactions of one Code and Date that differ in all three keys
TieTxns(code) == {Tx(code, 1, kv) : kv \in KVMaps(Keys, Vals)}

SyncTx == Tx("S", 1, NoKV)

Dirs == {Dir("account", arg, fb) : arg \in {"X", "Y"}, fb \in {0, 3}}

InputsCode ==
    /\ f1trs \in SeqsUpTo(CodeTxns, MaxLen)
    /\ f2trs \in SeqsUpTo(CodeTxns, MaxLen)
    /\ f1drs = <<>>
    /\ f2drs = <<>>

InputsTail ==
    \E ov \in {<<>>, <<Tx("O", 1, NoKV)>>} :
       /\ \E ta \in SeqsUpTo(TailTxns("A"), MaxTail) : f1trs = <<SyncTx>> \o ov \o ta
       /\ \E tb \in SeqsUpTo(TailTxns("B"), MaxTail) : f2trs = <<SyncTx>> \o ov \o tb
       /\ f1drs = <<>>
       /\ f2drs = <<>>

InputsTie ==
    /\ \E ta \in TieTxns("A") : f1trs = <<SyncTx, ta>>
    /\ \E tb \in TieTxns("B") : f2trs = <<SyncTx, tb>>
    /\ f1drs = <<>>
    /\ f2drs = <<>>

InputsDirs ==
    /\ f1trs = <<SyncTx>>
    /\ f2trs = <<SyncTx>>
    /\ f1drs \in SeqsUpTo(Dirs, MaxDirs)
    /\ f2drs \in SeqsUpTo(Dirs, MaxDirs)

Init ==
    /\ InputsCode \/ InputsTail \/ InputsTie \/ InputsDirs
    /\ drs = <<>>
    /\ trs = <<>>
    /\ syncPoint = 0
    /\ i1 = 0
    /\ i2 = 0
    /\ pc = "directives"
    /\ msg = ""
    /\ destCreated = FALSE
    /\ written = NoFile

-----------------------------------------------------------------------------
(* Library operations the program calls *)

\* s < t on Go strings: byte-wise lexical order, a proper prefix is smaller
RECURSIVE StrLess(_, _)
StrLess(s, t) ==
    IF t = <<>> THEN FALSE
    ELSE IF s = <<>> THEN TRUE
    ELSE IF Head(s) # Head(t) THEN Head(s) < Head(t)
    ELSE StrLess(Tail(s), Tail(t))

\* d2.Compare(d1): structural equality that ignores the provenance field
Compare(d2, d1) == d2.Type = d1.Type /\ d2.Argument = d1.Argument

\* Date.Before and Date.After of time.Time
Before(d, e) == d < e
After(d, e) == d > e

-----------------------------------------------------------------------------
(* The functions and loops of main.go *)

\* chooseAB that lets a go first when both have the same value
chooseABDefaultA(a, b, key) ==
    LET ok1 == key \in DOMAIN a
        ok2 == key \in DOMAIN b
    IN  IF ok1 /\ ~ok2 THEN -1
        ELSE IF ~ok1 /\ ok2 THEN 1
        ELSE IF ~ok1 /\ ~ok2 THEN 0
        ELSE IF a[key] = b[key] THEN -1
        ELSE IF StrLess(a[key], b[key]) THEN -1
        ELSE 1

\* chooseAB that orders two different values by side, not by value
chooseABBySide(a, b, key) ==
    LET ok1 == key \in DOMAIN a
        ok2 == key \in DOMAIN b
    IN  IF ok1 /\ ~ok2 THEN -1
        ELSE IF ~ok1 /\ ok2 THEN 1
        ELSE IF ~ok1 /\ ~ok2 THEN 0
        ELSE IF a[key] = b[key] THEN 0
        ELSE -1

\* -1 == a, 0 == neither, 1 == b
chooseAB(a, b, key) ==
    LET ok1 == key \in DOMAIN a
        ok2 == key \in DOMAIN b
    IN  IF ok1 /\ ~ok2 THEN -1
        ELSE IF ~ok1 /\ ok2 THEN 1
        ELSE IF ~ok1 /\ ~ok2 THEN 0
        ELSE IF a[key] = b[key] THEN 0
        ELSE IF StrLess(a[key], b[key]) THEN -1
        ELSE 1

\* the inner loop leaving after its first pass
DirKeptFirstOnly(d2, ds) == ds = <<>> \/ ~Compare(d2, ds[1])

\* the inner loop over f1drs: d2 is kept unless it compares equal to some d1
DirKept(d2, ds) == \A k \in 1..Len(ds) : ~Compare(d2, ds[k])

\* the directive merge without the test of the inner loop
MergeDirectivesNoDedup(a, b) == a \o b

\* the directive merge: f1drs, then the kept directives of f2drs
MergeDirectives(a, b) == a \o SelectSeq(b, LAMBDA d2 : DirKept(d2, a))

\* for _, d := range drs { d.FoundBefore = 0 }: d is a copy of the element of
\* the slice (Directive is a struct type), the slice is left as it was
ResetFoundBefore(ds) ==
    LET d == [k \in 1..Len(ds) |-> [ds[k] EXCEPT !.FoundBefore = 0]]
    IN  ds

\* the prefix loop with i < syncPoint
AddPrefixShort(a, sp) == SubSeq(a, 1, sp)

\* for i := 0; i <= syncPoint; i++ { trs = append(trs, f1trs[i]) }
AddPrefix(a, sp) == SubSeq(a, 1, sp + 1)

\* the tie-break asking RID before ID
CascadeRIDFirst(t1, t2) ==
    LET byID == chooseAB(t1.KVPairs, t2.KVPairs, "ID")
        byRID == chooseAB(t1.KVPairs, t2.KVPairs, "RID")
        byFITID == chooseAB(t1.KVPairs, t2.KVPairs, "FITID")
    IN  IF byRID # 0 THEN byRID
        ELSE IF byID # 0 THEN byID
        ELSE byFITID

\* the tie-break of two transactions of one date: ID, then RID, then FITID
Cascade(t1, t2) ==
    LET byID == chooseAB(t1.KVPairs, t2.KVPairs, "ID")
        byRID == chooseAB(t1.KVPairs, t2.KVPairs, "RID")
        byFITID == chooseAB(t1.KVPairs, t2.KVPairs, "FITID")
    IN  IF byID # 0 THEN byID
        ELSE IF byRID # 0 THEN byRID
        ELSE byFITID

\* the zipper pass with the two date tests exchanged: the later one goes first
ZipperSideLaterFirst(a, b, x1, x2) ==
    IF x1 >= Len(a) THEN "b"
    ELSE IF x2 >= Len(b) THEN "a"
    ELSE IF After(At(a, x1).Date, At(b, x2).Date) THEN "a"
    ELSE IF Before(At(a, x1).Date, At(b, x2).Date) THEN "b"
    ELSE LET dir == Cascade(At(a, x1), At(b, x2))
         IN  IF dir < 0 THEN "a" ELSE IF dir > 0 THEN "b" ELSE "fail"

\* one pass of the zipper loop with a cursor in range: the side whose
\* transaction is appended, "a" or "b", or "fail" when the loop gives up
ZipperSide(a, b, x1, x2) ==
    IF x1 >= Len(a) THEN "b"
    ELSE IF x2 >= Len(b) THEN "a"
    ELSE IF Before(At(a, x1).Date, At(b, x2).Date) THEN "a"
    ELSE IF After(At(a, x1).Date, At(b, x2).Date) THEN "b"
    ELSE LET dir == Cascade(At(a, x1), At(b, x2))
         IN  IF dir < 0 THEN "a" ELSE IF dir > 0 THEN "b" ELSE "fail"

\* the zipper loop run from cursors x1, x2 until it ends or gives up
RECURSIVE ZipperRun(_, _, _, _, _)
ZipperRun(a, b, x1, x2, out) ==
    IF ~(x1 < Len(a) \/ x2 < Len(b)) THEN [ok |-> TRUE, out |-> out]
    ELSE LET side == ZipperSide(a, b, x1, x2)
         IN  IF side = "a" THEN ZipperRun(a, b, x1 + 1, x2, Append(out, At(a, x1)))
             ELSE IF side = "b" THEN ZipperRun(a, b, x1, x2 + 1, Append(out, At(b, x2)))
             ELSE [ok |-> FALSE, out |-> out]

-----------------------------------------------------------------------------
(* The steps of main *)

\* main.go:66-86: merge the directives, reset the provenance, start the scan
MergeDirs ==
    /\ pc = "directives"
    /\ drs' = ResetFoundBefore(MergeDirectives(f1drs, f2drs))
    /\ syncPoint' = Len(f1trs) - 1
    /\ pc' = "sync"
    /\ UNCHANGED <<f1trs, f1drs, f2trs, f2drs, trs, i1, i2, msg, destCreated, written>>

\* main.go:87-91: one pass of the backward scan for the sync point
SyncScan ==
    /\ pc = "sync"
    /\ IF syncPoint >= 0
       THEN IF Len(f2trs) = 0
            THEN pc' = "panic" /\ UNCHANGED syncPoint
            ELSE IF At(f1trs, syncPoint).Code = At(f2trs, 0).Code
                 THEN pc' = "scanned" /\ UNCHANGED syncPoint
                 ELSE syncPoint' = syncPoint - 1 /\ UNCHANGED pc
       ELSE pc' = "scanned" /\ UNCHANGED syncPoint
    /\ UNCHANGED <<f1trs, f1drs, f2trs, f2drs, drs, trs, i1, i2, msg, destCreated, written>>

\* main.go:92-103: the check of the scan's result, the prefix, the cursors
AfterScan ==
    /\ pc = "scanned"
    /\ IF syncPoint = Len(f1trs)
       THEN /\ msg' = NoSyncPoint
            /\ pc' = "exit1"
            /\ UNCHANGED <<trs, i1, i2>>
       ELSE /\ trs' = trs \o AddPrefix(f1trs, syncPoint)
            /\ i1' = syncPoint + 1
            /\ i2' = 1
            /\ pc' = "overlap"
            /\ UNCHANGED msg
    /\ UNCHANGED <<f1trs, f1drs, f2trs, f2drs, drs, syncPoint, destCreated, written>>

\* main.go:104-111: one pass of the overlap walk
OverlapStep ==
    /\ pc = "overlap"
    /\ IF i1 < Len(f1trs) \/ i2 < Len(f2trs)
       THEN IF i1 >= Len(f1trs) \/ i2 >= Len(f2trs)
            THEN \* f1trs[i1] or f2trs[i2]: index out of range
                 pc' = "panic" /\ UNCHANGED <<trs, i1, i2>>
            ELSE IF At(f1trs, i1).Code # At(f2trs, i2).Code
                 THEN pc' = "zipper" /\ UNCHANGED <<trs, i1, i2>>
                 ELSE /\ trs' = Append(trs, At(f1trs, i1))
                      /\ i1' = i1 + 1
                      /\ i2' = i2 + 1
                      /\ UNCHANGED pc
       ELSE pc' = "zipper" /\ UNCHANGED <<trs, i1, i2>>
    /\ UNCHANGED <<f1trs, f1drs, f2trs, f2drs, drs, syncPoint, msg, destCreated, written>>

\* main.go:114-180: one pass of the zipper loop
ZipperStep ==
    /\ pc = "zipper"
    /\ IF i1 < Len(f1trs) \/ i2 < Len(f2trs)
       THEN LET side == ZipperSide(f1trs, f2trs, i1, i2)
            IN  IF side = "a"
                THEN /\ trs' = Append(trs, At(f1trs, i1))
                     /\ i1' = i1 + 1
                     /\ UNCHANGED <<i2, pc, msg>>
                ELSE IF side = "b"
                THEN /\ trs' = Append(trs, At(f2trs, i2))
                     /\ i2' = i2 + 1
                     /\ UNCHANGED <<i1, pc, msg>>
                ELSE /\ msg' = UnorderableTransactions
                     /\ pc' = "exit1"
                     /\ UNCHANGED <<trs, i1, i2>>
       ELSE pc' = "create" /\ UNCHANGED <<trs, i1, i2, msg>>
    /\ UNCHANGED <<f1trs, f1drs, f2trs, f2drs, drs, syncPoint, destCreated, written>>

\* main.go:182-186: os.Create(dest) succeeds or fails
CreateDest ==
    /\ pc = "create"
    /\ \E ok \in BOOLEAN :
          IF ok
          THEN destCreated' = TRUE /\ pc' = "write" /\ UNCHANGED msg
          ELSE msg' = "create error" /\ pc' = "exit1" /\ UNCHANGED destCreated
    /\ UNCHANGED <<f1trs, f1drs, f2trs, f2drs, drs, trs, syncPoint, i1, i2, written>>

\* main.go:188-193: WriteLedgerFile(out, trs, drs) succeeds or fails
WriteFile ==
    /\ pc = "write"
    /\ \E ok \in BOOLEAN :
          IF ok
          THEN /\ written' = [trs |-> trs, drs |-> drs, any |-> TRUE]
               /\ pc' = "done"
               /\ UNCHANGED msg
          ELSE msg' = "write error" /\ pc' = "exit1" /\ UNCHANGED written
    /\ UNCHANGED <<f1trs, f1drs, f2trs, f2drs, drs, trs, syncPoint, i1, i2, destCreated>>

Next ==
    \/ MergeDirs
    \/ SyncScan
    \/ AfterScan
    \/ OverlapStep
    \/ ZipperStep
    \/ CreateDest
    \/ WriteFile

Spec == Init /\ [][Next]_vars

TypeOK ==
    /\ pc \in {"directives", "sync", "scanned", "overlap", "zipper", "create",
               "write", "done", "exit1", "panic"}
    /\ syncPoint \in -1..Len(f1trs)
    /\ i1 \in 0..Len(f1trs)
    /\ i2 \in 0..(Len(f2trs) + 1)
    /\ destCreated \in BOOLEAN

-----------------------------------------------------------------------------
(* Vocabulary of the properties, stated on the inputs alone *)

Range(s) == {s[k] : k \in 1..Len(s)}

\* the bag of the elements of a sequence, with their multiplicities
SeqBag(s) == [x \in Range(s) |-> Cardinality({k \in 1..Len(s) : s[k] = x})]

\* the master has a transaction with the Code of the source's first one
HasSync ==
    /\ Len(f2trs) > 0
    /\ \E k \in 1..Len(f1trs) : f1trs[k].Code = f2trs[1].Code

\* the index (from 0) of the last such transaction of the master, -1 if none
SyncIdx ==
    IF HasSync
    THEN CHOOSE s \in 0..(Len(f1trs) - 1) :
            /\ At(f1trs, s).Code = At(f2trs, 0).Code
            /\ \A t \in (s + 1)..(Len(f1trs) - 1) : At(f1trs, t).Code # At(f2trs, 0).Code
    ELSE -1

\* the pair j of the walk after the sync point exists and agrees on Code
Agree(j) ==
    /\ SyncIdx + 1 + j < Len(f1trs)
    /\ 1 + j < Len(f2trs)
    /\ At(f1trs, SyncIdx + 1 + j).Code = At(f2trs, 1 + j).Code

\* the length of the Code-matching run that extends the sync point
RunLen == CHOOSE m \in 0..Len(f1trs) : (\A j \in 0..(m - 1) : Agree(j)) /\ ~Agree(m)

\* the length of the common region: the sync transaction and the run
CommonLen == 1 + RunLen

\* where the diverging tails begin (indices from 0)
Start1 == SyncIdx + 1 + RunLen
Start2 == 1 + RunLen

TailA == SubSeq(f1trs, Start1 + 1, Len(f1trs))
TailB == SubSeq(f2trs, Start2 + 1, Len(f2trs))

\* the in-memory merge ran to its end (the destination may still fail)
MergeCompleted ==
    \/ pc \in {"create", "write", "done"}
    \/ pc = "exit1" /\ msg \in {"create error", "write error"}

\* the walk after the sync point is over and main did not crash in it
PastOverlap ==
    \/ pc = "zipper"
    \/ MergeCompleted
    \/ pc = "exit1" /\ msg = UnorderableTransactions

NonDecreasing(s) == \A k \in 1..(Len(s) - 1) : s[k].Date <= s[k + 1].Date

\* out is an interleaving of x and y that keeps the order of each
RECURSIVE IsInterleave(_, _, _)
IsInterleave(out, x, y) ==
    IF out = <<>> THEN x = <<>> /\ y = <<>>
    ELSE \/ x # <<>> /\ Head(x) = Head(out) /\ IsInterleave(Tail(out), Tail(x), y)
         \/ y # <<>> /\ Head(y) = Head(out) /\ IsInterleave(Tail(out), x, Tail(y))

\* s is lexically smaller than t, said without recursion
LexSmaller(s, t) ==
    \E n \in 0..Len(s) :
       /\ n <= Len(t)
       /\ \A k \in 1..n : s[k] = t[k]
       /\ \/ n = Len(s) /\ n < Len(t)
          \/ n < Len(s) /\ n < Len(t) /\ s[n + 1] < t[n + 1]

\* what one key says about two K/V maps: "a", "b" or "none" (inconclusive)
KeyVerdict(ka, kb, key) ==
    IF key \in DOMAIN ka /\ key \notin DOMAIN kb THEN "a"
    ELSE IF key \notin DOMAIN ka /\ key \in DOMAIN kb THEN "b"
    ELSE IF key \notin DOMAIN ka THEN "none"
    ELSE IF ka[key] = kb[key] THEN "none"
    ELSE IF LexSmaller(ka[key], kb[key]) THEN "a"
    ELSE "b"

KeyOrder == <<"ID", "RID", "FITID">>

\* the verdict of the first conclusive key in the fixed order, "none" if none
FirstConclusive(ka, kb) ==
    IF \A n \in 1..Len(KeyOrder) : KeyVerdict(ka, kb, KeyOrder[n]) = "none"
    THEN "none"
    ELSE LET n == CHOOSE m \in 1..Len(KeyOrder) :
                     /\ KeyVerdict(ka, kb, KeyOrder[m]) # "none"
                     /\ \A l \in 1..(m - 1) : KeyVerdict(ka, kb, KeyOrder[l]) = "none"
         IN  KeyVerdict(ka, kb, KeyOrder[n])

\* the zipper is at a pair of transactions of one date
AtTie ==
    /\ pc = "zipper"
    /\ i1 < Len(f1trs)
    /\ i2 < Len(f2trs)
    /\ At(f1trs, i1).Date = At(f2trs, i2).Date

\* b's directives that compare equal to none of a's
NotInMaster(d) == \A k \in 1..Len(f1drs) : ~Compare(d, f1drs[k])

\* b's directives taken one by one unless equal to one already in the output
RECURSIVE IncludeNew(_, _)
IncludeNew(out, b) ==
    IF b = <<>> THEN out
    ELSE IF \E k \in 1..Len(out) : Compare(Head(b), out[k])
         THEN IncludeNew(out, Tail(b))
         ELSE IncludeNew(Append(out, Head(b)), Tail(b))

\* the directives under Compare: the same classes on both sides
SameDirectiveSet(S, T) ==
    /\ \A d \in S : \E e \in T : Compare(d, e)
    /\ \A e \in T : \E d \in S : Compare(e, d)

StripProvenance(ds) == [k \in 1..Len(ds) |-> [ds[k] EXCEPT !.FoundBefore = 0]]

-----------------------------------------------------------------------------
(* The properties *)

\* C1 - Conservation: when a sync point exists and the merge completes, the
\* output has |a| + |b| - k transactions, k the length of the common region,
\* and holds every transaction of a and of b[k..] exactly as often as they do.
Conservation ==
    (HasSync /\ MergeCompleted) =>
        /\ Len(trs) = Len(f1trs) + Len(f2trs) - CommonLen
        /\ SeqBag(trs) = SeqBag(f1trs) (+) SeqBag(SubSeq(f2trs, CommonLen + 1, Len(f2trs)))

\* a completed merge with a sync point, a run after it and two tails
ConservationWitness ==
    /\ pc = "done"
    /\ HasSync
    /\ RunLen >= 1
    /\ TailA # <<>>
    /\ TailB # <<>>
    /\ Len(written.trs) = Len(f1trs) + Len(f2trs) - CommonLen

\* C2 - No-overlap failure: when no transaction of a has the Code of b[0],
\* the merge ends with the NoSyncPoint message and exit 1, having appended
\* no transaction and without creating the destination.
NoOverlapFailure ==
    (Len(f2trs) > 0 /\ ~HasSync /\ pc \notin {"directives", "sync", "scanned"}) =>
        /\ pc = "exit1"
        /\ msg = NoSyncPoint
        /\ trs = <<>>
        /\ ~destCreated

\* C3 - The overlap walk never reads past the end of a or b, and when the sync
\* point is the last transaction of a the merge completes with a followed by
\* b[1..].
OverlapWalkStops ==
    /\ (HasSync /\ pc = "overlap" /\ (i1 < Len(f1trs) \/ i2 < Len(f2trs)))
          => (i1 < Len(f1trs) /\ i2 < Len(f2trs))
    /\ (HasSync /\ SyncIdx = Len(f1trs) - 1) =>
          /\ pc # "panic"
          /\ msg \notin {NoSyncPoint, UnorderableTransactions}
          /\ MergeCompleted => trs = f1trs \o Tail(f2trs)

\* C4 - Unorderable failure: at a pair of one date on which ID, RID and FITID
\* are all inconclusive, the merge fails with UnorderableTransactions, emits
\* neither transaction, and the destination is never created.
UnorderableFailure ==
    /\ [][(AtTie /\ FirstConclusive(At(f1trs, i1).KVPairs, At(f2trs, i2).KVPairs) = "none")
            => /\ pc' = "exit1"
               /\ msg' = UnorderableTransactions
               /\ trs' = trs
               /\ ~destCreated']_vars
    /\ [](msg = UnorderableTransactions => (pc = "exit1" /\ ~destCreated /\ written = NoFile))

\* the failure on a pair that has the same ID on both sides
UnorderableWitness ==
    /\ pc = "exit1"
    /\ msg = UnorderableTransactions
    /\ i1 < Len(f1trs)
    /\ i2 < Len(f2trs)
    /\ "ID" \in DOMAIN At(f1trs, i1).KVPairs
    /\ "ID" \in DOMAIN At(f2trs, i2).KVPairs
    /\ At(f1trs, i1).Date = At(f2trs, i2).Date
    /\ ~destCreated

\* C5 - Tie-break cascade: at a pair of one date, the transaction emitted
\* next is the one of the side named by the first conclusive key in the order
\* ID, RID, FITID.
TieBreakCascade ==
    [][AtTie =>
         LET verdict == FirstConclusive(At(f1trs, i1).KVPairs, At(f2trs, i2).KVPairs)
         IN  /\ verdict = "a" =>
                  (trs' = Append(trs, At(f1trs, i1)) /\ i1' = i1 + 1 /\ i2' = i2)
             /\ verdict = "b" =>
                  (trs' = Append(trs, At(f2trs, i2)) /\ i2' = i2 + 1 /\ i1' = i1)]_vars

\* b was emitted first because of RID, the ID being the same on both sides
\* and FITID speaking for a
TieBreakWitness ==
    /\ pc = "zipper"
    /\ Len(f1trs) = 2 /\ Len(f2trs) = 2
    /\ i1 = 1 /\ i2 = 2
    /\ trs = <<f1trs[1], f2trs[2]>>
    /\ f1trs[2].Date = f2trs[2].Date
    /\ KeyVerdict(f1trs[2].KVPairs, f2trs[2].KVPairs, "ID") = "none"
    /\ "ID" \in DOMAIN f1trs[2].KVPairs
    /\ KeyVerdict(f1trs[2].KVPairs, f2trs[2].KVPairs, "RID") = "b"
    /\ KeyVerdict(f1trs[2].KVPairs, f2trs[2].KVPairs, "FITID") = "a"

\* C6 - Determinism independent of side: from any point of the zipper phase,
\* zippering the remaining tails in either role fails in both or gives the
\* same sequence in both; the tail the merge emitted is the one the
\* zipper gives with the roles of the two tails exchanged.
SideIndependent ==
    /\ pc = "zipper" =>
          LET ta == SubSeq(f1trs, i1 + 1, Len(f1trs))
              tb == SubSeq(f2trs, i2 + 1, Len(f2trs))
              ab == ZipperRun(ta, tb, 0, 0, <<>>)
              ba == ZipperRun(tb, ta, 0, 0, <<>>)
          IN  ab.ok = ba.ok /\ (ab.ok => ab.out = ba.out)
    /\ MergeCompleted =>
          LET ba == ZipperRun(TailB, TailA, 0, 0, <<>>)
          IN  ba.ok /\ SubSeq(trs, Start1 + 1, Len(trs)) = ba.out
    /\ (pc = "exit1" /\ msg = UnorderableTransactions) =>
          ~ZipperRun(TailB, TailA, 0, 0, <<>>).ok

\* a completed merge whose two tails were interleaved with a tie between them
SideIndependentWitness ==
    /\ pc = "done"
    /\ Len(TailA) >= 2
    /\ Len(TailB) >= 2
    /\ \E k \in 1..Len(TailA) : \E l \in 1..Len(TailB) : TailA[k].Date = TailB[l].Date
    /\ SubSeq(written.trs, Start1 + 1, Len(written.trs)) = ZipperRun(TailB, TailA, 0, 0, <<>>).out
    /\ written.trs[Start1 + 1] \in Range(TailB)

\* C7 - Directive merge result, as the code has it: a's directives in a's
\* order, then in b's order exactly the directives of b that are Compare-equal
\* to no directive of a; under Compare the output is the union of a and b.
DirectiveMergeResult ==
    pc # "directives" =>
        /\ drs = f1drs \o SelectSeq(f2drs, NotInMaster)
        /\ SameDirectiveSet(Range(drs), Range(f1drs) \cup Range(f2drs))

\* b repeats a directive that a does not have, and drops one that a has
DirectiveMergeWitness ==
    /\ pc # "directives"
    /\ Len(f1drs) >= 1
    /\ \E k \in 1..Len(f2drs) : ~NotInMaster(f2drs[k])
    /\ \E k, l \in 1..Len(f2drs) :
          k < l /\ Compare(f2drs[k], f2drs[l]) /\ NotInMaster(f2drs[k])
    /\ Len(drs) = Len(f1drs) + 2

\* C7 as claimed: then the directives of b that are Compare-equal to no
\* directive already included in the output.
DirectiveMergeClaimed ==
    pc # "directives" =>
        /\ drs = IncludeNew(f1drs, f2drs)
        /\ SameDirectiveSet(Range(drs), Range(f1drs) \cup Range(f2drs))

\* C8 - Provenance reset: every directive given to the serializer has
\* FoundBefore = 0.
ProvenanceReset ==
    written.any => \A k \in 1..Len(written.drs) : written.drs[k].FoundBefore = 0

\* C9 - Idempotence of the directive merge: merging a with itself gives a,
\* same elements, same order, same length, up to the provenance field.
DirectiveMergeIdempotent ==
    (pc # "directives" /\ f2drs = f1drs) =>
        /\ Len(drs) = Len(f1drs)
        /\ StripProvenance(drs) = StripProvenance(f1drs)

\* a list of several different directives merged with itself
IdempotentWitness ==
    /\ pc = "done"
    /\ f2drs = f1drs
    /\ Len(f1drs) >= 2
    /\ \E k, l \in 1..Len(f1drs) : ~Compare(f1drs[k], f1drs[l])
    /\ Len(written.drs) = Len(f1drs)

\* C10 - Chronological order of the tail: when the two tails after the common
\* region are non-decreasing in Date, the tail emitted so far is
\* non-decreasing in Date and interleaves the consumed parts of the two tails
\* in their own orders.
ChronologicalTail ==
    (PastOverlap /\ NonDecreasing(TailA) /\ NonDecreasing(TailB)) =>
        LET emitted == SubSeq(trs, Start1 + 1, Len(trs))
        IN  /\ NonDecreasing(emitted)
            /\ IsInterleave(emitted, SubSeq(f1trs, Start1 + 1, i1),
                                     SubSeq(f2trs, Start2 + 1, i2))

\* both tails have two dates and the zipper has emitted from both
ChronologicalWitness ==
    /\ pc = "zipper"
    /\ NonDecreasing(TailA) /\ NonDecreasing(TailB)
    /\ Len(TailA) >= 2 /\ TailA[1].Date < TailA[Len(TailA)].Date
    /\ Len(TailB) >= 2 /\ TailB[1].Date < TailB[Len(TailB)].Date
    /\ i1 > Start1
    /\ i2 > Start2
    /\ Len(trs) >= Start1 + 3

====
